---- MODULE Spec2Model ----
(***************************************************************************)
(* kata-shim entry point (main.go): main and realMain as a state machine.  *)
(* One process run: flag values and host facts are fixed in Init, the main *)
(* goroutine walks realMain statement by statement (pc), deferred calls    *)
(* are kept on a stack and run in LIFO order on return or panic, the stdio *)
(* copy tasks and the signal forwarder run concurrently with it.           *)
(***************************************************************************)
EXTENDS Integers, Sequences, FiniteSets, TLC

\* ---------------------------------------------------------------- constants
exitFailure == 1
exitSuccess == 0
maxThreads == 6

\* ------------------------------------------------------------------- bounds
\* remote exit codes range over 0..MaxExitCode
MaxExitCode == 2
\* chunks a stream source can yield before end-of-stream
MaxChunks == 1
\* signals the host raises during one run
MaxSignals == 1
\* host core counts lie CPUSpread below and above maxThreads
CPUSpread == 1
\* the largest core count, and the largest GOMAXPROCS value, setThreads is
\* examined with
MaxCPU == 8
\* the value of the GOMAXPROCS environment variable when it is set
MaxEnvProcs == 2

ExitCodes == 0..MaxExitCode
Directions == {"stdin", "stdout", "stderr"}
\* -log values: a level logrus knows and one it does not. The debug and
\* crashOnError package variables only steer the crash-dump hook and are
\* left out.
LogLevels == {"warn", "bogus"}
\* "" is the flag's default: not given on the command line
Strings(s) == {"", s}
\* hosts as <<core count, GOMAXPROCS>>, 0 standing for GOMAXPROCS unset:
\* more cores than maxThreads, fewer, and more with the variable set
HostCases ==
    {<<maxThreads + CPUSpread, 0>>, <<maxThreads - CPUSpread, 0>>,
     <<maxThreads + CPUSpread, MaxEnvProcs>>}
\* processExit before the process has exited
NoExit == -1

VARIABLES
    flags,          \* the parsed command line
    numCPU,         \* runtime.NumCPU()
    envGOMAXPROCS,  \* os.Getenv("GOMAXPROCS"), 0 when unset
    gomaxprocs,     \* the runtime's current thread limit
    pc,             \* position of the main goroutine
    defers,         \* realMain's deferred calls, last pushed last
    panicking,      \* a panic is unwinding realMain
    exitCode,       \* realMain's result
    processExit,    \* argument of the os.Exit that ended the process
    exitedBy,       \* who ended it: "none", "main", "fatal", "handlePanic"
    versionPrinted, \* the version line was written
    loggerReady,    \* initLogger succeeded
    tracerCalls,    \* calls of createTracer
    span,           \* root and proxyStdio spans and the proxyStdio tag
    connects,       \* calls of newShim
    shim,           \* "none", "connected", "failed"
    setupCalls,     \* calls of setupTerminal
    acquireCount,   \* successful raw-mode acquisitions
    restoreCount,   \* calls of restoreTerminal
    sigState,       \* "idle", "subscribed", "stopped"
    sigStops,       \* calls of signal.Stop
    sigRaised,      \* signals the host has raised so far
    sigQueue,       \* signals waiting in the subscription channel
    sigInflight,    \* the forwarder is inside sendSignal
    sigForwarded,   \* sendSignal calls that succeeded
    sigErrors,      \* sendSignal calls that failed
    wg,             \* the WaitGroup counter
    tasks,          \* per direction: "idle", "running", "eof", "error"
    copied,         \* per direction: chunks copied
    waitCalls,      \* calls of shim.wait
    waitResult,     \* what shim.wait returned
    stopTracingCalls \* calls of stopTracing

vars == <<flags, numCPU, envGOMAXPROCS, gomaxprocs, pc,
          defers, panicking, exitCode, processExit, exitedBy, versionPrinted,
          loggerReady, tracerCalls, span, connects, shim, setupCalls,
          acquireCount, restoreCount, sigState, sigStops, sigRaised, sigQueue,
          sigInflight, sigForwarded, sigErrors, wg, tasks, copied, waitCalls,
          waitResult, stopTracingCalls>>

\* groups used in UNCHANGED
threadVars == <<numCPU, envGOMAXPROCS, gomaxprocs>>
sigVars == <<sigRaised, sigQueue, sigInflight, sigForwarded, sigErrors>>
ioVars == <<wg, tasks, copied>>
termVars == <<setupCalls, acquireCount, restoreCount>>
exitVars == <<processExit, exitedBy>>

Flags ==
    [showVersion : BOOLEAN, logLevel : LogLevels, agentAddr : Strings("sock"),
     container : Strings("c1"), execID : Strings("e1"), terminal : BOOLEAN,
     proxyExitCode : BOOLEAN]

Init ==
    /\ flags \in Flags
    /\ \E h \in HostCases : numCPU = h[1] /\ envGOMAXPROCS = h[2]
    /\ gomaxprocs = IF envGOMAXPROCS = 0 THEN numCPU ELSE envGOMAXPROCS
    /\ pc = "setThreads"
    /\ defers = <<>>
    /\ panicking = FALSE
    /\ exitCode = exitSuccess
    /\ processExit = NoExit
    /\ exitedBy = "none"
    /\ versionPrinted = FALSE
    /\ loggerReady = FALSE
    /\ tracerCalls = 0
    /\ span = [root |-> "none", stdio |-> "none", tag |-> ""]
    /\ connects = 0
    /\ shim = "none"
    /\ setupCalls = 0
    /\ acquireCount = 0
    /\ restoreCount = 0
    /\ sigState = "idle"
    /\ sigStops = 0
    /\ sigRaised = 0
    /\ sigQueue = 0
    /\ sigInflight = FALSE
    /\ sigForwarded = 0
    /\ sigErrors = 0
    /\ wg = 0
    /\ tasks = [d \in Directions |-> "idle"]
    /\ copied = [d \in Directions |-> 0]
    /\ waitCalls = 0
    /\ waitResult = [code |-> 0, err |-> FALSE]
    /\ stopTracingCalls = 0

\* ------------------------------------------------------------ realMain
\* a return statement of realMain: the result is set, the deferred calls run
Return(code) ==
    /\ exitCode' = code
    /\ pc' = "unwind"

\* variant of setThreadsLimit: the limit is set whatever the core count
setThreadsLimitAlways(env, ncpu, cur) ==
    IF env = 0
    THEN maxThreads
    ELSE cur

\* setThreads(): lower the thread limit when the environment leaves it open
setThreadsLimit(env, ncpu, cur) ==
    IF env = 0
    THEN IF ncpu > maxThreads THEN maxThreads ELSE cur
    ELSE cur

SetThreads ==
    /\ pc = "setThreads"
    /\ gomaxprocs' = setThreadsLimit(envGOMAXPROCS, numCPU, gomaxprocs)
    /\ pc' = "flagParse"
    /\ UNCHANGED <<flags, numCPU, envGOMAXPROCS, defers,
                   panicking, exitCode, exitVars, versionPrinted,
                   loggerReady, tracerCalls, span, connects, shim, termVars,
                   sigState, sigStops, sigVars, ioVars, waitCalls, waitResult,
                   stopTracingCalls>>

\* variant of ShowVersion: the emptiness check comes before the version flag
ShowVersionAfterCheck ==
    /\ pc = "flagParse"
    /\ \/ /\ flags.agentAddr = "" \/ flags.container = "" \/ flags.execID = ""
          /\ Return(exitFailure)
          /\ UNCHANGED versionPrinted
       \/ /\ ~(flags.agentAddr = "" \/ flags.container = "" \/ flags.execID = "")
          /\ flags.showVersion
          /\ versionPrinted' = TRUE
          /\ Return(exitSuccess)
       \/ /\ ~(flags.agentAddr = "" \/ flags.container = "" \/ flags.execID = "")
          /\ ~flags.showVersion
          /\ pc' = "checkArgs"
          /\ UNCHANGED <<versionPrinted, exitCode>>
    /\ UNCHANGED <<flags, threadVars, defers, panicking,
                   exitVars, loggerReady, tracerCalls, span, connects,
                   shim, termVars, sigState, sigStops, sigVars, ioVars,
                   waitCalls, waitResult, stopTracingCalls>>

\* flag.Parse() and the -version early return
ShowVersion ==
    /\ pc = "flagParse"
    /\ \/ /\ flags.showVersion
          /\ versionPrinted' = TRUE
          /\ Return(exitSuccess)
       \/ /\ ~flags.showVersion
          /\ pc' = "checkArgs"
          /\ UNCHANGED <<versionPrinted, exitCode>>
    /\ UNCHANGED <<flags, threadVars, defers, panicking,
                   exitVars, loggerReady, tracerCalls, span, connects,
                   shim, termVars, sigState, sigStops, sigVars, ioVars,
                   waitCalls, waitResult, stopTracingCalls>>

\* variant of MissingArgs: rejects only when all three are empty
MissingArgsAll(f) == f.agentAddr = "" /\ f.container = "" /\ f.execID = ""

\* the emptiness check of agent address, container ID and exec ID
MissingArgs(f) == f.agentAddr = "" \/ f.container = "" \/ f.execID = ""

CheckArgs ==
    /\ pc = "checkArgs"
    /\ \/ /\ MissingArgs(flags)
          /\ Return(exitFailure)
       \/ /\ ~MissingArgs(flags)
          /\ pc' = "initLogger"
          /\ UNCHANGED exitCode
    /\ UNCHANGED <<flags, threadVars, defers, panicking,
                   exitVars, versionPrinted, loggerReady, tracerCalls,
                   span, connects, shim, termVars, sigState, sigStops,
                   sigVars, ioVars, waitCalls, waitResult, stopTracingCalls>>

\* logrus.ParseLevel: the level names it knows
ParseLevelOk(l) == l \in {"debug", "info", "warn", "error", "fatal", "panic"}

InitLogger ==
    /\ pc = "initLogger"
    /\ \/ /\ ParseLevelOk(flags.logLevel)
          /\ loggerReady' = TRUE
          /\ pc' = "createTracer"
          /\ UNCHANGED exitCode
       \/ /\ ~ParseLevelOk(flags.logLevel)
          /\ UNCHANGED loggerReady
          /\ Return(exitFailure)
    /\ UNCHANGED <<flags, threadVars, defers, panicking,
                   exitVars, versionPrinted, tracerCalls, span, connects,
                   shim, termVars, sigState, sigStops, sigVars, ioVars,
                   waitCalls, waitResult, stopTracingCalls>>

\* createTracer(shimName); on error logger().Fatal ends the process with
\* status 1 on the spot: no deferred call runs and main is not resumed
CreateTracer ==
    /\ pc = "createTracer"
    /\ tracerCalls' = tracerCalls + 1
    /\ \/ /\ pc' = "rootSpan"
          /\ UNCHANGED exitVars
       \/ /\ pc' = "exited"
          /\ processExit' = exitFailure
          /\ exitedBy' = "fatal"
    /\ UNCHANGED <<flags, threadVars, defers, panicking,
                   exitCode, versionPrinted, loggerReady, span, connects,
                   shim, termVars, sigState, sigStops, sigVars, ioVars,
                   waitCalls, waitResult, stopTracingCalls>>

\* variant of RootSpan: span.Finish() is not deferred
RootSpanNoDefer ==
    /\ pc = "rootSpan"
    /\ span' = [span EXCEPT !.root = "open"]
    /\ UNCHANGED defers
    /\ pc' = "newShim"
    /\ UNCHANGED <<flags, threadVars, panicking,
                   exitCode, exitVars, versionPrinted, loggerReady,
                   tracerCalls, connects, shim, termVars, sigState, sigStops,
                   sigVars, ioVars, waitCalls, waitResult, stopTracingCalls>>

\* tracer.StartSpan("realMain"); defer span.Finish()
RootSpan ==
    /\ pc = "rootSpan"
    /\ span' = [span EXCEPT !.root = "open"]
    /\ defers' = Append(defers, "spanFinish")
    /\ pc' = "newShim"
    /\ UNCHANGED <<flags, threadVars, panicking,
                   exitCode, exitVars, versionPrinted, loggerReady,
                   tracerCalls, connects, shim, termVars, sigState, sigStops,
                   sigVars, ioVars, waitCalls, waitResult, stopTracingCalls>>

\* variant of NewShim: the connection error is logged and realMain goes on
NewShimIgnoreError ==
    /\ pc = "newShim"
    /\ connects' = connects + 1
    /\ \/ /\ shim' = "connected"
          /\ pc' = "setupTerminal"
          /\ UNCHANGED exitCode
       \/ /\ shim' = "failed"
          /\ pc' = "setupTerminal"
          /\ UNCHANGED exitCode
    /\ UNCHANGED <<flags, threadVars, defers, panicking,
                   exitVars, versionPrinted, loggerReady, tracerCalls,
                   span, termVars, sigState, sigStops, sigVars, ioVars,
                   waitCalls, waitResult, stopTracingCalls>>

\* newShim(ctx, agentAddr, container, execID): the one connection attempt
NewShim ==
    /\ pc = "newShim"
    /\ connects' = connects + 1
    /\ \/ /\ shim' = "connected"
          /\ pc' = "setupTerminal"
          /\ UNCHANGED exitCode
       \/ /\ shim' = "failed"
          /\ Return(exitFailure)
    /\ UNCHANGED <<flags, threadVars, defers, panicking,
                   exitVars, versionPrinted, loggerReady, tracerCalls,
                   span, termVars, sigState, sigStops, sigVars, ioVars,
                   waitCalls, waitResult, stopTracingCalls>>

\* variant of SetupTerminal: restoreTerminal is not deferred
SetupTerminalNoDefer ==
    /\ pc = "setupTerminal"
    /\ \/ /\ ~flags.terminal
          /\ pc' = "handleSignals"
          /\ UNCHANGED <<setupCalls, acquireCount, defers, exitCode>>
       \/ /\ flags.terminal
          /\ setupCalls' = setupCalls + 1
          /\ acquireCount' = acquireCount + 1
          /\ UNCHANGED defers
          /\ pc' = "handleSignals"
          /\ UNCHANGED exitCode
       \/ /\ flags.terminal
          /\ setupCalls' = setupCalls + 1
          /\ UNCHANGED <<acquireCount, defers>>
          /\ Return(exitFailure)
    /\ UNCHANGED <<flags, threadVars, panicking,
                   exitVars, versionPrinted, loggerReady, tracerCalls,
                   span, connects, shim, restoreCount, sigState, sigStops,
                   sigVars, ioVars, waitCalls, waitResult, stopTracingCalls>>

\* variant of SetupTerminal: the setupTerminal error is logged and realMain
\* goes on
SetupTerminalIgnoreError ==
    /\ pc = "setupTerminal"
    /\ \/ /\ ~flags.terminal
          /\ pc' = "handleSignals"
          /\ UNCHANGED <<setupCalls, acquireCount, defers, exitCode>>
       \/ /\ flags.terminal
          /\ setupCalls' = setupCalls + 1
          /\ acquireCount' = acquireCount + 1
          /\ defers' = Append(defers, "restoreTerminal")
          /\ pc' = "handleSignals"
          /\ UNCHANGED exitCode
       \/ /\ flags.terminal
          /\ setupCalls' = setupCalls + 1
          /\ UNCHANGED <<acquireCount, defers, exitCode>>
          /\ pc' = "handleSignals"
    /\ UNCHANGED <<flags, threadVars, panicking,
                   exitVars, versionPrinted, loggerReady, tracerCalls,
                   span, connects, shim, restoreCount, sigState, sigStops,
                   sigVars, ioVars, waitCalls, waitResult, stopTracingCalls>>

\* variant of SetupTerminal: setupTerminal is called whatever the flag
SetupTerminalAlways ==
    /\ pc = "setupTerminal"
    /\ \/ /\ ~flags.terminal
          /\ pc' = "handleSignals"
          /\ UNCHANGED <<setupCalls, acquireCount, defers, exitCode>>
       \/ /\ TRUE
          /\ setupCalls' = setupCalls + 1
          /\ acquireCount' = acquireCount + 1
          /\ defers' = Append(defers, "restoreTerminal")
          /\ pc' = "handleSignals"
          /\ UNCHANGED exitCode
       \/ /\ TRUE
          /\ setupCalls' = setupCalls + 1
          /\ UNCHANGED <<acquireCount, defers>>
          /\ Return(exitFailure)
    /\ UNCHANGED <<flags, threadVars, panicking,
                   exitVars, versionPrinted, loggerReady, tracerCalls,
                   span, connects, shim, restoreCount, sigState, sigStops,
                   sigVars, ioVars, waitCalls, waitResult, stopTracingCalls>>

\* if terminal { setupTerminal; on error return; defer restoreTerminal }
SetupTerminal ==
    /\ pc = "setupTerminal"
    /\ \/ /\ ~flags.terminal
          /\ pc' = "handleSignals"
          /\ UNCHANGED <<setupCalls, acquireCount, defers, exitCode>>
       \/ /\ flags.terminal
          /\ setupCalls' = setupCalls + 1
          /\ acquireCount' = acquireCount + 1
          /\ defers' = Append(defers, "restoreTerminal")
          /\ pc' = "handleSignals"
          /\ UNCHANGED exitCode
       \/ /\ flags.terminal
          /\ setupCalls' = setupCalls + 1
          /\ UNCHANGED <<acquireCount, defers>>
          /\ Return(exitFailure)
    /\ UNCHANGED <<flags, threadVars, panicking,
                   exitVars, versionPrinted, loggerReady, tracerCalls,
                   span, connects, shim, restoreCount, sigState, sigStops,
                   sigVars, ioVars, waitCalls, waitResult, stopTracingCalls>>

\* variant of HandleSignals: signal.Stop is not deferred
HandleSignalsNoStop ==
    /\ pc = "handleSignals"
    /\ sigState' = "subscribed"
    /\ UNCHANGED defers
    /\ pc' = "traceStdio"
    /\ UNCHANGED <<flags, threadVars, panicking,
                   exitCode, exitVars, versionPrinted, loggerReady,
                   tracerCalls, span, connects, shim, termVars, sigStops,
                   sigVars, ioVars, waitCalls, waitResult, stopTracingCalls>>

\* variant of HandleSignals: signal.Stop is deferred below the earlier defers
HandleSignalsDeferredFirst ==
    /\ pc = "handleSignals"
    /\ sigState' = "subscribed"
    /\ defers' = <<"signalStop">> \o defers
    /\ pc' = "traceStdio"
    /\ UNCHANGED <<flags, threadVars, panicking,
                   exitCode, exitVars, versionPrinted, loggerReady,
                   tracerCalls, span, connects, shim, termVars, sigStops,
                   sigVars, ioVars, waitCalls, waitResult, stopTracingCalls>>

\* shim.handleSignals(ctx, os.Stdin) subscribes and starts the forwarder;
\* defer signal.Stop(sigc)
HandleSignals ==
    /\ pc = "handleSignals"
    /\ sigState' = "subscribed"
    /\ defers' = Append(defers, "signalStop")
    /\ pc' = "traceStdio"
    /\ UNCHANGED <<flags, threadVars, panicking,
                   exitCode, exitVars, versionPrinted, loggerReady,
                   tracerCalls, span, connects, shim, termVars, sigStops,
                   sigVars, ioVars, waitCalls, waitResult, stopTracingCalls>>

\* stdioSpan, _ := trace(ctx, "proxyStdio"); SetTag("category", "interactive")
TraceStdio ==
    /\ pc = "traceStdio"
    /\ span' = [span EXCEPT !.stdio = "open", !.tag = "interactive"]
    /\ pc' = "proxyStdio"
    /\ UNCHANGED <<flags, threadVars, defers, panicking,
                   exitCode, exitVars, versionPrinted, loggerReady,
                   tracerCalls, connects, shim, termVars, sigState, sigStops,
                   sigVars, ioVars, waitCalls, waitResult, stopTracingCalls>>

\* the directions proxyStdio starts a copy task for
ActiveDirections(terminal) == Directions

\* shim.proxyStdio(wg, terminal): one wg.Add and one copy task per direction
ProxyStdio ==
    /\ pc = "proxyStdio"
    /\ wg' = wg + Cardinality(ActiveDirections(flags.terminal))
    /\ tasks' = [d \in Directions |->
                    IF d \in ActiveDirections(flags.terminal)
                    THEN "running" ELSE tasks[d]]
    /\ pc' = "wgWait"
    /\ UNCHANGED <<flags, threadVars, defers, panicking,
                   exitCode, exitVars, versionPrinted, loggerReady,
                   tracerCalls, span, connects, shim, termVars, sigState,
                   sigStops, sigVars, copied, waitCalls, waitResult,
                   stopTracingCalls>>

\* variant of WgWait: realMain goes on without waiting for the counter
WgWaitNoBarrier ==
    /\ pc = "wgWait"
    /\ pc' = "stdioSpanFinish"
    /\ UNCHANGED <<flags, threadVars, defers, panicking,
                   exitCode, exitVars, versionPrinted, loggerReady,
                   tracerCalls, span, connects, shim, termVars, sigState,
                   sigStops, sigVars, ioVars, waitCalls, waitResult,
                   stopTracingCalls>>

\* variant of WgWait: the barrier also waits for the signal forwarder to be
\* idle
WgWaitAfterSignals ==
    /\ pc = "wgWait"
    /\ wg = 0
    /\ ~sigInflight /\ sigQueue = 0
    /\ pc' = "stdioSpanFinish"
    /\ UNCHANGED <<flags, threadVars, defers, panicking,
                   exitCode, exitVars, versionPrinted, loggerReady,
                   tracerCalls, span, connects, shim, termVars, sigState,
                   sigStops, sigVars, ioVars, waitCalls, waitResult,
                   stopTracingCalls>>

\* wg.Wait(): blocks until the counter is zero
WgWait ==
    /\ pc = "wgWait"
    /\ wg = 0
    /\ pc' = "stdioSpanFinish"
    /\ UNCHANGED <<flags, threadVars, defers, panicking,
                   exitCode, exitVars, versionPrinted, loggerReady,
                   tracerCalls, span, connects, shim, termVars, sigState,
                   sigStops, sigVars, ioVars, waitCalls, waitResult,
                   stopTracingCalls>>

\* variant of StdioSpanFinish: a failed copy task makes realMain return
\* before the wait
StdioSpanFinishAbortOnError ==
    /\ pc = "stdioSpanFinish"
    /\ span' = [span EXCEPT !.stdio = "finished"]
    /\ IF \E d \in Directions : tasks[d] = "error"
       THEN Return(exitFailure)
       ELSE pc' = "shimWait" /\ UNCHANGED exitCode
    /\ UNCHANGED <<flags, threadVars, defers, panicking,
                   exitVars, versionPrinted, loggerReady,
                   tracerCalls, connects, shim, termVars, sigState, sigStops,
                   sigVars, ioVars, waitCalls, waitResult, stopTracingCalls>>

\* stdioSpan.Finish()
StdioSpanFinish ==
    /\ pc = "stdioSpanFinish"
    /\ span' = [span EXCEPT !.stdio = "finished"]
    /\ pc' = "shimWait"
    /\ UNCHANGED <<flags, threadVars, defers, panicking,
                   exitCode, exitVars, versionPrinted, loggerReady,
                   tracerCalls, connects, shim, termVars, sigState, sigStops,
                   sigVars, ioVars, waitCalls, waitResult, stopTracingCalls>>

\* exitcode, err := shim.wait()
ShimWait ==
    /\ pc = "shimWait"
    /\ waitCalls' = waitCalls + 1
    /\ \E c \in ExitCodes, e \in BOOLEAN : waitResult' = [code |-> c, err |-> e]
    /\ pc' = "checkWait"
    /\ UNCHANGED <<flags, threadVars, defers, panicking,
                   exitCode, exitVars, versionPrinted, loggerReady,
                   tracerCalls, span, connects, shim, termVars, sigState,
                   sigStops, sigVars, ioVars, stopTracingCalls>>

\* variant of ReturnCode: the remote code is returned whatever the toggle
ReturnCodeAlwaysProxy(err, exitcode, proxyExitCode) ==
    IF err THEN exitFailure
    ELSE IF exitcode # 0 THEN exitcode
    ELSE exitSuccess

\* variant of ReturnCode: the toggle is tested before the error
ReturnCodeErrorLast(err, exitcode, proxyExitCode) ==
    IF proxyExitCode /\ exitcode # 0 THEN exitcode
    ELSE IF err THEN exitFailure
    ELSE exitSuccess

\* variant of ReturnCode: a copy or signal-delivery error fails the run
ReturnCodeFailOnSessionError(err, exitcode, proxyExitCode) ==
    IF err \/ sigErrors > 0 \/ (\E d \in Directions : tasks[d] = "error")
    THEN exitFailure
    ELSE IF proxyExitCode /\ exitcode # 0 THEN exitcode
    ELSE exitSuccess

\* the value realMain returns after shim.wait()
ReturnCode(err, exitcode, proxyExitCode) ==
    IF err THEN exitFailure
    ELSE IF proxyExitCode /\ exitcode # 0 THEN exitcode
    ELSE exitSuccess

\* variant of ReturnExit: a failed wait is tried again
ReturnExitRetry ==
    /\ pc = "checkWait"
    /\ IF waitResult.err
       THEN pc' = "shimWait" /\ UNCHANGED exitCode
       ELSE Return(ReturnCode(waitResult.err, waitResult.code,
                              flags.proxyExitCode))
    /\ UNCHANGED <<flags, threadVars, defers, panicking,
                   exitVars, versionPrinted, loggerReady, tracerCalls,
                   span, connects, shim, termVars, sigState, sigStops,
                   sigVars, ioVars, waitCalls, waitResult, stopTracingCalls>>

\* if err != nil { return exitFailure } else if proxyExitCode {...}; return
ReturnExit ==
    /\ pc = "checkWait"
    /\ Return(ReturnCode(waitResult.err, waitResult.code, flags.proxyExitCode))
    /\ UNCHANGED <<flags, threadVars, defers, panicking,
                   exitVars, versionPrinted, loggerReady, tracerCalls,
                   span, connects, shim, termVars, sigState, sigStops,
                   sigVars, ioVars, waitCalls, waitResult, stopTracingCalls>>

\* ------------------------------------------------- deferred calls, panic
\* positions of realMain at which a call into the session code can panic
PanicPoints ==
    {"newShim", "setupTerminal", "handleSignals", "traceStdio", "proxyStdio",
     "wgWait", "stdioSpanFinish", "shimWait"}

\* a panic raised under realMain: the frame unwinds through its defers
Panic ==
    /\ pc \in PanicPoints
    /\ panicking' = TRUE
    /\ pc' = "unwind"
    /\ UNCHANGED <<flags, threadVars, defers, exitCode,
                   exitVars, versionPrinted, loggerReady, tracerCalls,
                   span, connects, shim, termVars, sigState, sigStops,
                   sigVars, ioVars, waitCalls, waitResult, stopTracingCalls>>

\* the deferred call that runs next: the last one pushed
TopDefer == defers[Len(defers)]
PopDefer == SubSeq(defers, 1, Len(defers) - 1)

\* deferred signal.Stop(sigc)
DeferSignalStop ==
    /\ pc = "unwind"
    /\ defers # <<>>
    /\ TopDefer = "signalStop"
    /\ sigState' = "stopped"
    /\ sigStops' = sigStops + 1
    /\ defers' = PopDefer
    /\ UNCHANGED <<flags, threadVars, pc, panicking,
                   exitCode, exitVars, versionPrinted, loggerReady,
                   tracerCalls, span, connects, shim, termVars, sigVars,
                   ioVars, waitCalls, waitResult, stopTracingCalls>>

\* deferred restoreTerminal(fd, termios)
DeferRestoreTerminal ==
    /\ pc = "unwind"
    /\ defers # <<>>
    /\ TopDefer = "restoreTerminal"
    /\ restoreCount' = restoreCount + 1
    /\ defers' = PopDefer
    /\ UNCHANGED <<flags, threadVars, pc, panicking,
                   exitCode, exitVars, versionPrinted, loggerReady,
                   tracerCalls, span, connects, shim, setupCalls,
                   acquireCount, sigState, sigStops, sigVars, ioVars,
                   waitCalls, waitResult, stopTracingCalls>>

\* deferred span.Finish() of the root span
DeferSpanFinish ==
    /\ pc = "unwind"
    /\ defers # <<>>
    /\ TopDefer = "spanFinish"
    /\ span' = [span EXCEPT !.root = "finished"]
    /\ defers' = PopDefer
    /\ UNCHANGED <<flags, threadVars, pc, panicking,
                   exitCode, exitVars, versionPrinted, loggerReady,
                   tracerCalls, connects, shim, termVars, sigState, sigStops,
                   sigVars, ioVars, waitCalls, waitResult, stopTracingCalls>>

\* ------------------------------------------------------------------ main
\* exitCode := realMain(ctx) has returned
RealMainReturns ==
    /\ pc = "unwind"
    /\ defers = <<>>
    /\ ~panicking
    /\ pc' = "stopTracing"
    /\ UNCHANGED <<flags, threadVars, defers, panicking,
                   exitCode, exitVars, versionPrinted, loggerReady,
                   tracerCalls, span, connects, shim, termVars, sigState,
                   sigStops, sigVars, ioVars, waitCalls, waitResult,
                   stopTracingCalls>>

\* stopTracing(ctx)
StopTracing ==
    /\ pc = "stopTracing"
    /\ stopTracingCalls' = stopTracingCalls + 1
    /\ pc' = "osExit"
    /\ UNCHANGED <<flags, threadVars, defers, panicking,
                   exitCode, exitVars, versionPrinted, loggerReady,
                   tracerCalls, span, connects, shim, termVars, sigState,
                   sigStops, sigVars, ioVars, waitCalls, waitResult>>

\* os.Exit(exitCode): main's deferred handlePanic does not run
OsExit ==
    /\ pc = "osExit"
    /\ processExit' = exitCode
    /\ exitedBy' = "main"
    /\ pc' = "exited"
    /\ UNCHANGED <<flags, threadVars, defers, panicking,
                   exitCode, versionPrinted, loggerReady, tracerCalls, span,
                   connects, shim, termVars, sigState, sigStops, sigVars,
                   ioVars, waitCalls, waitResult, stopTracingCalls>>

\* main's deferred handlePanic(ctx): recovers the panic, flushes the tracer
\* and ends the process with a failure status
HandlePanic ==
    /\ pc = "unwind"
    /\ defers = <<>>
    /\ panicking
    /\ stopTracingCalls' = stopTracingCalls + 1
    /\ processExit' = exitFailure
    /\ exitedBy' = "handlePanic"
    /\ pc' = "exited"
    /\ UNCHANGED <<flags, threadVars, defers, panicking,
                   exitCode, versionPrinted, loggerReady, tracerCalls, span,
                   connects, shim, termVars, sigState, sigStops, sigVars,
                   ioVars, waitCalls, waitResult>>

\* ----------------------------------------------------- stdio copy tasks
\* goroutines run only while the process lives
Alive == pc # "exited"

\* a copy task moves one chunk from its source to its destination
CopyChunk(d) ==
    /\ Alive
    /\ tasks[d] = "running"
    /\ copied[d] < MaxChunks
    /\ copied' = [copied EXCEPT ![d] = @ + 1]
    /\ UNCHANGED <<flags, threadVars, pc, defers,
                   panicking, exitCode, exitVars, versionPrinted,
                   loggerReady, tracerCalls, span, connects, shim, termVars,
                   sigState, sigStops, sigVars, wg, tasks, waitCalls,
                   waitResult, stopTracingCalls>>

\* the source reports end-of-stream: the task closes its destination and
\* leaves through wg.Done()
CopyEOF(d) ==
    /\ Alive
    /\ tasks[d] = "running"
    /\ tasks' = [tasks EXCEPT ![d] = "eof"]
    /\ wg' = wg - 1
    /\ UNCHANGED <<flags, threadVars, pc, defers,
                   panicking, exitCode, exitVars, versionPrinted,
                   loggerReady, tracerCalls, span, connects, shim, termVars,
                   sigState, sigStops, sigVars, copied, waitCalls, waitResult,
                   stopTracingCalls>>

\* a read or write fails: the error is logged, this task alone ends early
CopyError(d) ==
    /\ Alive
    /\ tasks[d] = "running"
    /\ tasks' = [tasks EXCEPT ![d] = "error"]
    /\ wg' = wg - 1
    /\ UNCHANGED <<flags, threadVars, pc, defers,
                   panicking, exitCode, exitVars, versionPrinted,
                   loggerReady, tracerCalls, span, connects, shim, termVars,
                   sigState, sigStops, sigVars, copied, waitCalls, waitResult,
                   stopTracingCalls>>

\* ------------------------------------------------------ signal forwarder
\* the host raises a signal (or a resize event): it is queued on the
\* subscription channel while the subscription is active
RaiseSignal ==
    /\ Alive
    /\ sigState = "subscribed"
    /\ sigRaised < MaxSignals
    /\ sigRaised' = sigRaised + 1
    /\ sigQueue' = sigQueue + 1
    /\ UNCHANGED <<flags, threadVars, pc, defers,
                   panicking, exitCode, exitVars, versionPrinted,
                   loggerReady, tracerCalls, span, connects, shim, termVars,
                   sigState, sigStops, sigInflight, sigForwarded, sigErrors,
                   ioVars, waitCalls, waitResult, stopTracingCalls>>

\* the forwarder takes the next event and enters sendSignal
TakeSignal ==
    /\ Alive
    /\ sigState = "subscribed"
    /\ sigQueue > 0
    /\ ~sigInflight
    /\ sigQueue' = sigQueue - 1
    /\ sigInflight' = TRUE
    /\ UNCHANGED <<flags, threadVars, pc, defers,
                   panicking, exitCode, exitVars, versionPrinted,
                   loggerReady, tracerCalls, span, connects, shim, termVars,
                   sigState, sigStops, sigRaised, sigForwarded, sigErrors,
                   ioVars, waitCalls, waitResult, stopTracingCalls>>

\* sendSignal returns: delivered, or an error that is logged and dropped;
\* a delivery still in flight after the cancellation can only fail
DeliverSignal ==
    /\ Alive
    /\ sigInflight
    /\ sigInflight' = FALSE
    /\ \/ /\ sigState = "subscribed"
          /\ sigForwarded' = sigForwarded + 1
          /\ UNCHANGED sigErrors
       \/ /\ sigErrors' = sigErrors + 1
          /\ UNCHANGED sigForwarded
    /\ UNCHANGED <<flags, threadVars, pc, defers,
                   panicking, exitCode, exitVars, versionPrinted,
                   loggerReady, tracerCalls, span, connects, shim, termVars,
                   sigState, sigStops, sigRaised, sigQueue, ioVars, waitCalls,
                   waitResult, stopTracingCalls>>

\* ------------------------------------------------------- specification
Next ==
    \/ SetThreads
    \/ ShowVersion
    \/ CheckArgs
    \/ InitLogger
    \/ CreateTracer
    \/ RootSpan
    \/ NewShim
    \/ SetupTerminal
    \/ HandleSignals
    \/ TraceStdio
    \/ ProxyStdio
    \/ WgWait
    \/ StdioSpanFinish
    \/ ShimWait
    \/ ReturnExit
    \/ Panic
    \/ DeferSignalStop
    \/ DeferRestoreTerminal
    \/ DeferSpanFinish
    \/ RealMainReturns
    \/ StopTracing
    \/ OsExit
    \/ HandlePanic
    \/ \E d \in Directions : CopyChunk(d)
    \/ \E d \in Directions : CopyEOF(d)
    \/ \E d \in Directions : CopyError(d)
    \/ RaiseSignal
    \/ TakeSignal
    \/ DeliverSignal

Spec == Init /\ [][Next]_vars

\* the steps of the main goroutine other than a panic
MainStep ==
    \/ SetThreads
    \/ ShowVersion
    \/ CheckArgs
    \/ InitLogger
    \/ CreateTracer
    \/ RootSpan
    \/ NewShim
    \/ SetupTerminal
    \/ HandleSignals
    \/ TraceStdio
    \/ ProxyStdio
    \/ WgWait
    \/ StdioSpanFinish
    \/ ShimWait
    \/ ReturnExit
    \/ DeferSignalStop
    \/ DeferRestoreTerminal
    \/ DeferSpanFinish
    \/ RealMainReturns
    \/ StopTracing
    \/ OsExit
    \/ HandlePanic

\* the scheduler runs the main goroutine whenever it can step (shim.wait
\* returns), and every copy task's stream ends, by end-of-stream or error
Fairness ==
    /\ WF_vars(MainStep)
    /\ \A d \in Directions : WF_vars(CopyEOF(d) \/ CopyError(d))

\* the runs that get to a session: a complete command line without
\* -version, a log level logrus knows, on a host with more cores than
\* maxThreads and GOMAXPROCS unset
InitSession ==
    /\ Init
    /\ ~flags.showVersion
    /\ flags.agentAddr # "" /\ flags.container # "" /\ flags.execID # ""
    /\ ParseLevelOk(flags.logLevel)
    /\ numCPU > maxThreads
    /\ envGOMAXPROCS = 0

FairSpec == InitSession /\ [][Next]_vars /\ Fairness

\* setThreads on its own, over every core count 1..MaxCPU and GOMAXPROCS
\* unset (0) or set to 1..MaxCPU; the runtime starts with the limit at the
\* environment's value, or at the core count when the environment has none
InitThreads ==
    /\ flags \in Flags
    /\ numCPU \in 1..MaxCPU
    /\ envGOMAXPROCS \in 0..MaxCPU
    /\ gomaxprocs = IF envGOMAXPROCS = 0 THEN numCPU ELSE envGOMAXPROCS
    /\ pc = "setThreads"
    /\ defers = <<>>
    /\ panicking = FALSE
    /\ exitCode = exitSuccess
    /\ processExit = NoExit
    /\ exitedBy = "none"
    /\ versionPrinted = FALSE
    /\ loggerReady = FALSE
    /\ tracerCalls = 0
    /\ span = [root |-> "none", stdio |-> "none", tag |-> ""]
    /\ connects = 0
    /\ shim = "none"
    /\ setupCalls = 0
    /\ acquireCount = 0
    /\ restoreCount = 0
    /\ sigState = "idle"
    /\ sigStops = 0
    /\ sigRaised = 0
    /\ sigQueue = 0
    /\ sigInflight = FALSE
    /\ sigForwarded = 0
    /\ sigErrors = 0
    /\ wg = 0
    /\ tasks = [d \in Directions |-> "idle"]
    /\ copied = [d \in Directions |-> 0]
    /\ waitCalls = 0
    /\ waitResult = [code |-> 0, err |-> FALSE]
    /\ stopTracingCalls = 0

SpecThreads == InitThreads /\ [][SetThreads]_vars

\* -------------------------------------------------------------- claims
\* realMain has returned a value to main (no panic, no Fatal)
Returned ==
    /\ ~panicking
    /\ pc \in {"unwind", "stopTracing", "osExit"} \/ exitedBy = "main"

Ended(d) == tasks[d] \in {"eof", "error"}
NoSessionStarted ==
    /\ sigState = "idle"
    /\ sigRaised = 0
    /\ \A d \in Directions : tasks[d] = "idle" /\ copied[d] = 0
    /\ wg = 0
    /\ span.stdio = "none"
    /\ waitCalls = 0

\* C1: shim.wait is issued only after the stdio join barrier has cleared:
\* whenever realMain is about to issue it or has issued it, every copy task
\* proxyStdio started has ended (end-of-stream or its own error) and the
\* WaitGroup counter is zero; no state has a wait issued and a task running.
WaitAfterStdioJoin ==
    (pc = "shimWait" \/ waitCalls > 0) =>
        /\ \A d \in ActiveDirections(flags.terminal) : Ended(d)
        /\ \A d \in Directions : tasks[d] # "running"
        /\ wg = 0

\* C1 witness: the wait was issued after tasks ended both ways, one of them
\* having copied its whole stream
WaitAfterStdioJoinWitness ==
    /\ waitCalls = 1
    /\ tasks["stdout"] = "eof" /\ copied["stdout"] = MaxChunks
    /\ tasks["stderr"] = "error"
    /\ tasks["stdin"] = "eof"

\* C2: when shim.wait succeeds with remote code N, realMain returns N if
\* proxy-exit-code is on and N is not 0, returns 0 if proxy-exit-code is
\* off, and returns 0 if N is 0; os.Exit gets that value.
ProxiedExitCode ==
    (Returned /\ waitCalls = 1 /\ ~waitResult.err) =>
        /\ (flags.proxyExitCode /\ waitResult.code # 0)
              => exitCode = waitResult.code
        /\ ~flags.proxyExitCode => exitCode = 0
        /\ waitResult.code = 0 => exitCode = 0
        /\ exitedBy = "main" => processExit = exitCode

\* C2 witness: proxy-exit-code on, the remote code is the largest non-zero
\* one, and the process exited with it
ProxiedExitCodeWitness ==
    /\ exitedBy = "main"
    /\ waitCalls = 1 /\ ~waitResult.err
    /\ flags.proxyExitCode
    /\ waitResult.code = MaxExitCode /\ MaxExitCode # 0
    /\ processExit = MaxExitCode

\* C3: with the version flag unset and any of agent address, container ID
\* or exec ID empty, realMain only ever returns exitFailure and nothing of
\* the session happens: no logger setup, no tracer or root span, no
\* newShim, no setupTerminal, no signal subscription, no copy task, no wait.
MissingArgsNoSideEffects ==
    (/\ ~flags.showVersion
     /\ flags.agentAddr = "" \/ flags.container = "" \/ flags.execID = "") =>
        /\ pc \in {"setThreads", "flagParse", "checkArgs", "unwind",
                   "stopTracing", "osExit", "exited"}
        /\ pc \in {"unwind", "stopTracing", "osExit", "exited"}
              => exitCode = exitFailure
        /\ pc = "exited" => exitedBy = "main" /\ processExit = exitFailure
        /\ ~loggerReady
        /\ tracerCalls = 0
        /\ span.root = "none"
        /\ connects = 0 /\ shim = "none"
        /\ setupCalls = 0 /\ acquireCount = 0 /\ restoreCount = 0
        /\ NoSessionStarted
        /\ defers = <<>>

\* C3 witness: only the exec ID is missing, terminal was asked for, and the
\* process has exited with the failure code
MissingArgsNoSideEffectsWitness ==
    /\ ~flags.showVersion
    /\ flags.agentAddr # "" /\ flags.container # "" /\ flags.execID = ""
    /\ flags.terminal
    /\ exitedBy = "main"
    /\ processExit = exitFailure

\* C4: when shim.wait returns an error, realMain returns exitFailure (1)
\* whatever the proxy-exit-code toggle and whatever code came with the
\* error, and shim.wait is never called a second time.
WaitErrorFails ==
    /\ waitCalls <= 1
    /\ (Returned /\ waitCalls = 1 /\ waitResult.err) =>
          /\ exitCode = exitFailure
          /\ exitCode # 0
          /\ exitedBy = "main" => processExit = exitFailure

\* C4 witness: the error came with a code other than 0 and 1 while
\* proxy-exit-code was on, and the process exited with 1
WaitErrorFailsWitness ==
    /\ exitedBy = "main"
    /\ waitCalls = 1 /\ waitResult.err
    /\ waitResult.code = MaxExitCode /\ MaxExitCode > exitFailure
    /\ flags.proxyExitCode
    /\ processExit = exitFailure

\* C5: raw mode is restored exactly once on every exit path: restores never
\* exceed successful acquisitions, there is at most one acquisition, and
\* when the process has exited (return, wait failure or panic) the two
\* counts are equal.
TerminalRestoredOnce ==
    /\ restoreCount <= acquireCount
    /\ acquireCount <= 1
    /\ pc = "exited" => restoreCount = acquireCount

\* C5 witness: a panic unwound realMain after the acquisition and the
\* process exited with the terminal restored once
TerminalRestoredOnceWitness ==
    /\ exitedBy = "handlePanic"
    /\ acquireCount = 1
    /\ restoreCount = 1

\* C5 witness of the wait-failure path
TerminalRestoredOnceWaitFailure ==
    /\ exitedBy = "main"
    /\ waitCalls = 1 /\ waitResult.err
    /\ acquireCount = 1
    /\ restoreCount = 1

\* setupTerminal was called and failed
SetupFailed == setupCalls > acquireCount

StdioPartialFailureIndependent ==
    /\ [](/\ wg = Cardinality({d \in Directions : tasks[d] = "running"})
          /\ (Returned /\ \E d \in Directions : tasks[d] # "idle")
                => waitCalls = 1)
    /\ [][\A d \in Directions :
            (tasks[d] = "running" /\ tasks'[d] = "error") =>
                /\ \A e \in Directions \ {d} :
                      tasks'[e] = tasks[e] /\ copied'[e] = copied[e]
                /\ pc' = pc
                /\ wg' = wg - 1]_vars

\* C7 witness: stdout failed before copying anything, stdin and stderr ran
\* to end-of-stream with their whole stream copied, and the wait was called
StdioPartialFailureIndependentWitness ==
    /\ tasks["stdout"] = "error" /\ copied["stdout"] = 0
    /\ tasks["stdin"] = "eof" /\ copied["stdin"] = MaxChunks
    /\ tasks["stderr"] = "eof" /\ copied["stderr"] = MaxChunks
    /\ MaxChunks > 0
    /\ waitCalls = 1

\* C8: when newShim fails, realMain returns exitFailure; the connection is
\* attempted once only and nothing follows the failed attempt: no
\* setupTerminal, no signal subscription, no copy task, no wait.
ConnectFailureStops ==
    /\ connects <= 1
    /\ shim = "failed" =>
          /\ connects = 1
          /\ Returned
          /\ exitCode = exitFailure
          /\ exitedBy = "main" => processExit = exitFailure
          /\ setupCalls = 0 /\ acquireCount = 0 /\ restoreCount = 0
          /\ NoSessionStarted

\* C8 witness: terminal was asked for, newShim failed, the process exited
\* with 1
ConnectFailureStopsWitness ==
    /\ shim = "failed"
    /\ flags.terminal
    /\ exitedBy = "main"
    /\ processExit = exitFailure

\* C9: once connected (and the terminal acquired if asked for), what
\* realMain returns is a function of the shim.wait result and the
\* proxy-exit-code toggle alone: however many copy tasks or signal
\* deliveries failed, the wait was still called and the result is
\* exitFailure on a wait error, the remote code when the toggle is on, 0
\* otherwise.
ExitCodeIgnoresSessionErrors ==
    (/\ Returned
     /\ shim = "connected"
     /\ flags.terminal => acquireCount = 1) =>
        /\ waitCalls = 1
        /\ exitCode = CASE waitResult.err -> exitFailure
                        [] ~waitResult.err /\ flags.proxyExitCode
                              -> waitResult.code
                        [] OTHER -> exitSuccess

\* C9 witness: a signal delivery and two copy tasks failed, the wait
\* succeeded with code 0 and the process exited with 0
ExitCodeIgnoresSessionErrorsWitness ==
    /\ exitedBy = "main"
    /\ shim = "connected"
    /\ sigErrors > 0
    /\ tasks["stdin"] = "error" /\ tasks["stdout"] = "error"
    /\ waitCalls = 1 /\ ~waitResult.err /\ waitResult.code = 0
    /\ processExit = exitSuccess

\* C10 as stated: stopTracing runs exactly once per process run, after
\* realMain is done and before the process exits, on every path by which
\* the process ends.
TracerFlushedOnceOnEveryExit ==
    /\ stopTracingCalls <= 1
    /\ stopTracingCalls = 1 => pc \in {"osExit", "exited"}
    /\ pc = "exited" => stopTracingCalls = 1

RealMainDone ==
    /\ ~panicking
    /\ pc \in {"stopTracing", "osExit"} \/ exitedBy = "main"

\* C12: under fair scheduling, with every copy task ending and shim.wait
\* returning, a session waiting at the join barrier goes on to call
\* shim.wait and realMain returns its exit code (unless a panic unwinds
\* it); and while a copy task is still running realMain stays at the
\* barrier (only a panic takes it away) and shim.wait is not issued.
SessionProgress ==
    /\ (pc = "wgWait") ~> ((RealMainDone /\ waitCalls = 1) \/ panicking)
    /\ [][(pc = "wgWait" /\ \E d \in Directions : tasks[d] = "running") =>
            /\ pc' = "wgWait" \/ panicking'
            /\ waitCalls' = 0]_vars

\* C12 witness: all three tasks copied their whole stream to end-of-stream,
\* the wait was called and realMain has returned to main
SessionProgressWitness ==
    /\ pc = "stopTracing"
    /\ waitCalls = 1
    /\ \A d \in Directions : tasks[d] = "eof" /\ copied[d] = MaxChunks

\* the positions of the main goroutine in program order
PcOrder ==
    <<"setThreads", "flagParse", "checkArgs", "initLogger", "createTracer",
      "rootSpan", "newShim", "setupTerminal", "handleSignals", "traceStdio",
      "proxyStdio", "wgWait", "stdioSpanFinish", "shimWait", "checkWait",
      "unwind", "stopTracing", "osExit", "exited">>
Pcs == {PcOrder[i] : i \in 1..Len(PcOrder)}
PcIndex == [p \in Pcs |-> CHOOSE i \in 1..Len(PcOrder) : PcOrder[i] = p]
PcRank(p) == PcIndex[p]

\* the lifecycle phases in order, and the phase of each position
PhaseOrder == <<"created", "connecting", "streaming", "waiting", "done">>
PhaseOf(p) ==
    IF PcRank(p) < PcRank("newShim") THEN "created"
    ELSE IF p = "newShim" THEN "connecting"
    ELSE IF PcRank(p) < PcRank("shimWait") THEN "streaming"
    ELSE IF p = "shimWait" THEN "waiting"
    ELSE "done"
PhaseIndex ==
    [p \in Pcs |-> CHOOSE i \in 1..Len(PhaseOrder) : PhaseOrder[i] = PhaseOf(p)]
PhaseRank(p) == PhaseIndex[p]

\* C13: the lifecycle only moves forward through created, connecting,
\* streaming, waiting, done: no step takes the main goroutine back to an
\* earlier phase or an earlier position; newShim is called at most once,
\* the copy tasks are started at most once (from proxyStdio, all idle
\* before), shim.wait is called at most once and its result is set by that
\* call alone.
LifecycleForwardOnly ==
    /\ [](connects <= 1 /\ waitCalls <= 1)
    /\ [][/\ PhaseRank(pc') >= PhaseRank(pc)
          /\ pc' # pc => PcRank(pc') > PcRank(pc)
          /\ connects' # connects => pc = "newShim" /\ connects = 0
          /\ (\E d \in Directions : tasks[d] = "idle" /\ tasks'[d] # "idle")
                => /\ pc = "proxyStdio"
                   /\ \A d \in Directions : tasks[d] = "idle"
          /\ (waitCalls' # waitCalls \/ waitResult' # waitResult)
                => pc = "shimWait" /\ waitCalls = 0]_vars

\* C13 witness: a run with a terminal went through every phase and exited
LifecycleForwardOnlyWitness ==
    /\ exitedBy = "main"
    /\ flags.terminal /\ ~flags.proxyExitCode
    /\ connects = 1 /\ acquireCount = 1
    /\ \A d \in Directions : Ended(d)
    /\ waitCalls = 1 /\ ~waitResult.err /\ waitResult.code = 0

SpanNestingOnPanic ==
    span.root = "finished" => span.stdio # "open"

\* C15: signal forwarding runs beside the stdio draining. The subscription
\* is there before any copy task starts and is active at every position of
\* realMain from the start of the copy tasks to the return after shim.wait;
\* the forwarder can take and deliver a signal whatever the copy tasks are
\* doing, and a copy task can end whatever the forwarder is doing; a
\* delivery that is queued, in flight (slow or blocked) or failed keeps
\* neither the barrier from clearing once no task runs nor shim.wait from
\* being issued.
SignalsConcurrentWithStdio ==
    /\ (\E d \in Directions : tasks[d] # "idle") => sigState # "idle"
    /\ pc \in {"traceStdio", "proxyStdio", "wgWait", "stdioSpanFinish",
               "shimWait", "checkWait"} => sigState = "subscribed"
    /\ (Alive /\ sigState = "subscribed" /\ sigQueue > 0 /\ ~sigInflight)
          => ENABLED TakeSignal
    /\ (Alive /\ sigInflight) => ENABLED DeliverSignal
    /\ \A d \in Directions :
          (Alive /\ tasks[d] = "running")
              => ENABLED CopyEOF(d) /\ ENABLED CopyError(d)
    /\ (pc = "wgWait" /\ \A d \in Directions : tasks[d] # "running")
          => ENABLED WgWait
    /\ pc = "shimWait" => ENABLED ShimWait

\* C15 witness: a delivery is in flight, not yet returned, in a state in
\* which the barrier has cleared and shim.wait has been issued
SignalsConcurrentWithStdioWitness ==
    /\ pc = "checkWait"
    /\ waitCalls = 1
    /\ sigInflight
    /\ sigState = "subscribed"

\* C16: raw mode is attempted only when the terminal flag is set: with the
\* flag unset setupTerminal and restoreTerminal are never called; it is
\* attempted at most once; and when the attempt fails realMain returns
\* exitFailure, restoreTerminal is never called and no signal subscription,
\* copy task or wait is ever started.
TerminalOnlyWhenAsked ==
    /\ ~flags.terminal =>
          /\ setupCalls = 0 /\ acquireCount = 0 /\ restoreCount = 0
          /\ \A i \in 1..Len(defers) : defers[i] # "restoreTerminal"
    /\ setupCalls <= 1
    /\ SetupFailed =>
          /\ Returned
          /\ exitCode = exitFailure /\ exitCode # 0
          /\ restoreCount = 0
          /\ \A i \in 1..Len(defers) : defers[i] # "restoreTerminal"
          /\ sigState = "idle" /\ sigStops = 0
          /\ \A d \in Directions : tasks[d] = "idle"
          /\ waitCalls = 0

\* C16 witness: setupTerminal failed and realMain has returned exitFailure
\* to main without a restore
TerminalOnlyWhenAskedWitness ==
    /\ SetupFailed
    /\ pc = "stopTracing"
    /\ exitCode = exitFailure
    /\ restoreCount = 0

\* C17: teardown runs in reverse order of acquisition: the signal
\* subscription is cancelled while the terminal is unrestored, the root span
\* open and the tracer unflushed; the terminal is restored while the root
\* span is open and never while the forwarder is subscribed; the root span
\* is finished before the tracer is flushed; the tracer is flushed before
\* the process exits; and a completed session exits with all four done.
TeardownReverseOrder ==
    /\ [](/\ restoreCount > 0 => sigState # "subscribed"
          /\ span.root = "finished" =>
                /\ sigState # "subscribed"
                /\ restoreCount = acquireCount
          /\ stopTracingCalls > 0 =>
                /\ span.root # "open"
                /\ sigState # "subscribed"
                /\ restoreCount = acquireCount
          /\ (waitCalls = 1 /\ exitedBy = "main") =>
                /\ sigState = "stopped" /\ sigStops = 1
                /\ restoreCount = acquireCount
                /\ acquireCount = (IF flags.terminal THEN 1 ELSE 0)
                /\ span.root = "finished"
                /\ stopTracingCalls = 1)
    /\ [][/\ sigStops' # sigStops =>
                /\ restoreCount = 0 /\ restoreCount' = 0
                /\ span.root = "open" /\ span'.root = "open"
                /\ stopTracingCalls' = 0
          /\ restoreCount' # restoreCount =>
                /\ sigState # "subscribed"
                /\ span.root = "open" /\ span'.root = "open"
                /\ stopTracingCalls' = 0
          /\ (span.root = "open" /\ span'.root = "finished") =>
                /\ stopTracingCalls' = 0
                /\ processExit' = NoExit
          /\ stopTracingCalls' # stopTracingCalls =>
                /\ span.root # "open"
                /\ processExit = NoExit
          /\ (processExit' # NoExit /\ exitedBy' = "main") =>
                stopTracingCalls = 1]_vars

\* C17 witness: a terminal session in the middle of its teardown, the
\* subscription cancelled and the terminal, root span and tracer still to do
TeardownReverseOrderWitness ==
    /\ pc = "unwind"
    /\ ~panicking
    /\ waitCalls = 1
    /\ sigState = "stopped"
    /\ acquireCount = 1 /\ restoreCount = 0
    /\ span.root = "open"
    /\ stopTracingCalls = 0

\* C18: with the version flag set realMain prints the version and returns
\* exit code 0 straight after flag parsing, whatever the other flags are
\* (empty agent address, container ID or exec ID included): the emptiness
\* check and every later step are never reached, and no logger, tracer,
\* connection, terminal, signal, stdio or wait action is performed.
VersionShortCircuits ==
    flags.showVersion =>
        /\ pc \in {"setThreads", "flagParse", "unwind", "stopTracing",
                   "osExit", "exited"}
        /\ pc \notin {"setThreads", "flagParse"} =>
              /\ versionPrinted
              /\ ~panicking
              /\ exitCode = exitSuccess /\ exitCode = 0
        /\ pc = "exited" => exitedBy = "main" /\ processExit = 0
        /\ defers = <<>>
        /\ ~loggerReady
        /\ tracerCalls = 0 /\ span.root = "none"
        /\ connects = 0 /\ shim = "none"
        /\ setupCalls = 0 /\ acquireCount = 0 /\ restoreCount = 0
        /\ sigStops = 0
        /\ NoSessionStarted

\* C18 witness: the version flag with every required argument empty, and
\* the process has exited with status 0
VersionShortCircuitsWitness ==
    /\ flags.showVersion
    /\ flags.agentAddr = "" /\ flags.container = "" /\ flags.execID = ""
    /\ versionPrinted
    /\ exitedBy = "main"
    /\ processExit = exitSuccess

\* C19: setThreads caps the thread limit to maxThreads = 6 whatever the
\* core count: with GOMAXPROCS unset the limit after setThreads is
\* min(NumCPU, 6), and setThreads lowers it only when NumCPU exceeds 6; with
\* GOMAXPROCS set setThreads changes nothing.
ThreadLimitCapped ==
    /\ maxThreads = 6
    /\ [](pc = "flagParse" =>
            /\ envGOMAXPROCS = 0 =>
                  /\ gomaxprocs =
                        (IF numCPU < maxThreads THEN numCPU ELSE maxThreads)
                  /\ gomaxprocs <= maxThreads
            /\ envGOMAXPROCS # 0 => gomaxprocs = envGOMAXPROCS)
    /\ [][pc = "setThreads" =>
            /\ gomaxprocs' # gomaxprocs =>
                  /\ envGOMAXPROCS = 0
                  /\ numCPU > maxThreads
                  /\ gomaxprocs' = maxThreads
                  /\ gomaxprocs' < gomaxprocs
            /\ (envGOMAXPROCS = 0 /\ numCPU > maxThreads) =>
                  gomaxprocs' = maxThreads
            /\ UNCHANGED <<numCPU, envGOMAXPROCS>>]_vars

\* C19 witness: the largest host with GOMAXPROCS unset, after setThreads
\* lowered the limit to maxThreads
ThreadLimitCappedWitness ==
    /\ pc = "flagParse"
    /\ envGOMAXPROCS = 0
    /\ numCPU = MaxCPU
    /\ numCPU > maxThreads
    /\ gomaxprocs = maxThreads

====
